---- MODULE Spec2Model ----
(***************************************************************************)
(* A model of the task orchestration engine of ai_coding_agent.py:         *)
(* AgentMemory with its save/load, CodingAgent.plan_task, execute_step,    *)
(* evaluate_result and the execute_task loop, plus the /save and /load     *)
(* commands of chat_interface.py.                                          *)
(*                                                                         *)
(* Texts (requests, steps, LLM responses) are sequences of string tokens.  *)
(* The tokens "{" and "}" are the brace characters the regular expression  *)
(* looks for, "w" is a word of prose, and the tokens of JsonBodies stand   *)
(* for the body of a JSON object.  Python's None is the empty tuple and a  *)
(* present value x is <<x>>.  datetime values are integers (clock ticks).  *)
(***************************************************************************)
EXTENDS Integers, Sequences, FiniteSets, TLC

VARIABLES
    memory,      \* CodingAgent.memory : AgentMemory
    file,        \* content of CodingAgent.memory_file; None when it does not exist
    now,         \* the wall clock read by datetime.now()
    pc,          \* position of execute_task: idle, plan, exec, eval
    attempt,     \* "orig" while running plan step i, "fix" while retrying it
    request,     \* user_request of the running execute_task
    plan,        \* local `plan`: Some(index into memory.task_plans) or None
    i,           \* loop index of execute_task (1-based)
    context,     \* local `context` of execute_task
    results,     \* local `results` of execute_task
    evaluation,  \* local `evaluation` (line 327): Some(dict) or None
    retry_evaluation, \* local `retry_evaluation` (line 351): Some(dict) or None
    outcome,     \* how the last execute_task ended: none (not yet), returned,
                 \* or the exception that left it: LLMError, AttributeError
    ret,         \* value execute_task returned, or None
    arg,         \* argument of the call in flight: a step text or a step result
    calls,       \* the calls execute_task has made to plan_task, execute_step
                 \* and evaluate_result, in order
    replies,     \* replies[k]: what the LLM answered in calls[k]
    emitted,     \* per learning: how often, and when first, the evaluator emitted it
    lastOp,      \* the operation that acted last
    durable,     \* what the last save that ran to its end wrote (None: no save yet)
    prompt,      \* what the last execution prompt was built from (None: none yet)
    disk,        \* the tool server's files: path -> stored text, None when absent
    tool_ret,    \* what the last read_file or write_file call returned
    written      \* per path, the content last passed to write_file (None: never)

vars == <<memory, file, now, pc, attempt, request, plan, i, context, results,
          evaluation, retry_evaluation, outcome, ret, arg, calls, replies,
          emitted, lastOp, durable, prompt,
         disk, tool_ret, written>>

\* The state of the tool server's file tools.
ToolVars == <<disk, tool_ret, written>>

-----------------------------------------------------------------------------
(* Bounds *)

\* New tasks are accepted while the clock is below MaxClock.
MaxClock == 3
\* Clock ticks per second; a timestamp on a whole second prints no fraction.
TicksPerSec == 2
\* The process stops only while the clock is below MaxStopClock.
MaxStopClock == 1

-----------------------------------------------------------------------------
(* Python values *)

None == <<>>
Some(x) == <<x>>
IsNone(o) == o = <<>>
Val(o) == o[1]

\* dict.get(k, default)
Get(d, k, default) == IF k \in DOMAIN d THEN d[k] ELSE default

\* Truthiness of a list (or of None, which d.get gives for a missing key).
Truthy(v) == v # <<>>

Min(a, b) == IF a < b THEN a ELSE b

\* datetime.isoformat() and str(datetime): seconds, then the fraction unless zero.
IsoFormat(t) ==
    IF t % TicksPerSec = 0 THEN <<t \div TicksPerSec>>
    ELSE <<t \div TicksPerSec, t % TicksPerSec>>

\* pydantic's parse of a datetime string: a missing fraction is zero.
ParseDatetime(s) ==
    IF Len(s) = 1 THEN s[1] * TicksPerSec ELSE s[1] * TicksPerSec + s[2]

-----------------------------------------------------------------------------
(* LLM responses and JSON *)

\* The JSON object bodies the LLM may produce.
JsonBodies == {"P0", "P1", "P2", "PX", "PM", "EOK", "EFAIL", "EMIX"}

\* json.loads of "{" body "}" for each body.
JsonObject(body) ==
    CASE body = "P0" -> [task_id |-> "t0", description |-> <<"d0">>, steps |-> <<>>]
      [] body = "P1" -> [task_id |-> "t1", description |-> <<"d1">>,
                         steps |-> << <<"s1">> >>]
      [] body = "P2" -> [task_id |-> "t1", description |-> <<"d2">>,
                         steps |-> << <<"s1">>, <<"s2">> >>]
      [] body = "PX" -> [task_id |-> "t3", description |-> <<"d3">>,
                         steps |-> << <<"s1">> >>, status |-> "completed",
                         completed_at |-> Some(<<0, 1>>)]
      [] body = "PM" -> [task_id |-> "t4", description |-> <<"d4">>]
      [] body = "EOK" -> [success |-> TRUE, errors |-> <<>>,
                          next_action |-> "continue", learnings |-> <<"L1">>]
      [] body = "EFAIL" -> [success |-> FALSE, errors |-> <<"E1">>,
                            next_action |-> "fix", learnings |-> <<"L2", "L1", "L2">>]
      [] body = "EMIX" -> [success |-> TRUE, errors |-> <<>>,
                           next_action |-> "continue", learnings |-> <<"L1", "LU">>]

\* The learning texts that occur in JsonObject.
Learnings == {"L1", "L2"}

\* The items of a learnings list that are not strings but JSON arrays or
\* objects: Python lists and dicts, which cannot be dictionary keys.
Unhashable == {"LU"}

Positions(text, tok) == {p \in 1..Len(text) : text[p] = tok}
SetMin(S) == CHOOSE x \in S : \A y \in S : x <= y
SetMax(S) == CHOOSE x \in S : \A y \in S : x >= y

\* A search that stops at the first "}" after the first "{".
ReSearchShortest(text) ==
    LET opens == Positions(text, "{")
        closes == {p \in Positions(text, "}") : opens # {} /\ p > SetMin(opens)}
    IN  IF opens = {} \/ closes = {}
        THEN None
        ELSE Some(SubSeq(text, SetMin(opens), SetMin(closes)))

\* re.search(r'\{.*\}', text, re.DOTALL).group(): from the first "{" to the
\* last "}" after it; None when there is no such pair.
ReSearch(text) ==
    LET opens == Positions(text, "{")
        closes == Positions(text, "}")
    IN  IF opens = {} \/ closes = {} \/ SetMax(closes) < SetMin(opens)
        THEN None
        ELSE Some(SubSeq(text, SetMin(opens), SetMax(closes)))

\* json.loads(span) for a span that starts with "{" and ends with "}":
\* Some(dict), or None for a JSONDecodeError.
JsonLoads(span) ==
    IF Len(span) = 2 THEN Some(<<>>)
    ELSE IF Len(span) = 3 /\ span[2] \in JsonBodies THEN Some(JsonObject(span[2]))
    ELSE None

-----------------------------------------------------------------------------
(* TaskPlan and AgentMemory *)

\* user_request[:100]
DescriptionLimit == 100

\* AgentMemory()
AgentMemory ==
    [conversation_history |-> <<>>, task_plans |-> <<>>, completed_tasks |-> <<>>,
     learned_patterns |-> <<>>, error_log |-> <<>>]

RequiredPlanFields == {"task_id", "description", "steps"}

\* TaskPlan(**d) at time t: Some(plan), or None for a pydantic ValidationError.
\* Fields of d that TaskPlan declares are taken from d, the others get their
\* defaults; date strings are parsed.
TaskPlan(d, t) ==
    IF ~(RequiredPlanFields \subseteq DOMAIN d) THEN None
    ELSE Some([task_id |-> d.task_id,
               description |-> d.description,
               steps |-> d.steps,
               status |-> Get(d, "status", "pending"),
               created_at |-> IF "created_at" \in DOMAIN d
                              THEN ParseDatetime(d.created_at) ELSE t,
               completed_at |-> IF IsNone(Get(d, "completed_at", None)) THEN None
                                ELSE Some(ParseDatetime(Val(d.completed_at)))])

\* A dump that writes datetimes to the second, without the fraction.
DumpPlanWholeSeconds(p) ==
    [task_id |-> p.task_id, description |-> p.description, steps |-> p.steps,
     status |-> p.status,
     created_at |-> <<p.created_at \div TicksPerSec>>,
     completed_at |-> IF IsNone(p.completed_at) THEN None
                      ELSE Some(<<Val(p.completed_at) \div TicksPerSec>>)]

\* model_dump() of one TaskPlan through json.dumps(default=str).
DumpPlan(p) ==
    [task_id |-> p.task_id, description |-> p.description, steps |-> p.steps,
     status |-> p.status,
     created_at |-> IsoFormat(p.created_at),
     completed_at |-> IF IsNone(p.completed_at) THEN None
                      ELSE Some(IsoFormat(Val(p.completed_at)))]

\* json.dumps(self.model_dump(), default=str, indent=2)
Dump(m) ==
    [conversation_history |-> m.conversation_history,
     task_plans |-> [k \in 1..Len(m.task_plans) |-> DumpPlan(m.task_plans[k])],
     completed_tasks |-> m.completed_tasks,
     learned_patterns |-> m.learned_patterns,
     error_log |-> m.error_log]

\* The text f.write puts in the file for the document d, as tokens: the
\* opening brace, the members, the closing brace.
JsonText(d) == <<"{", d, "}">>

\* What a write of text that stops early can leave in the file: open(.., 'w')
\* has emptied it, and a strict prefix of the text has reached it.
TornTexts(text) == { SubSeq(text, 1, k) : k \in 0..(Len(text) - 1) }

\* A decoder that accepts a document whose closing brace is missing.
ReadJsonLenient(text) ==
    IF Len(text) >= 2 /\ text[1] = "{" THEN Some(text[2]) ELSE None

\* json.loads(data) on the text of the file: the document, or None for a
\* JSONDecodeError.
ReadJson(text) ==
    IF Len(text) = 3 /\ text[1] = "{" /\ text[3] = "}" THEN Some(text[2]) ELSE None

\* AgentMemory.save_to_file: the new content of the file.
save_to_file(m) == Some(JsonText(Dump(m)))

\* cls(**json.loads(data)) for the content d of a file save_to_file wrote.
ParseMemory(d) ==
    [conversation_history |-> d.conversation_history,
     task_plans |-> [k \in 1..Len(d.task_plans) |-> Val(TaskPlan(d.task_plans[k], 0))],
     completed_tasks |-> d.completed_tasks,
     learned_patterns |-> d.learned_patterns,
     error_log |-> d.error_log]

\* A load that opens the file for appending, which creates a missing file.
load_from_file_creating(f) ==
    IF IsNone(f)
    THEN [raised |-> FALSE, memory |-> AgentMemory, file |-> save_to_file(AgentMemory)]
    ELSE IF IsNone(ReadJson(Val(f)))
    THEN [raised |-> TRUE, memory |-> AgentMemory, file |-> f]
    ELSE [raised |-> FALSE, memory |-> ParseMemory(Val(ReadJson(Val(f)))), file |-> f]

\* A load that catches the decoder's error and starts from an empty memory.
load_from_file_forgiving(f) ==
    IF IsNone(f) \/ IsNone(ReadJson(Val(f)))
    THEN [raised |-> FALSE, memory |-> AgentMemory, file |-> f]
    ELSE [raised |-> FALSE, memory |-> ParseMemory(Val(ReadJson(Val(f)))), file |-> f]

\* AgentMemory.load_from_file on file content f: whether it raised, the
\* memory it returns and the content it leaves. The file is opened for
\* reading only; nothing catches the decoder's error.
load_from_file(f) ==
    IF IsNone(f)
    THEN [raised |-> FALSE, memory |-> AgentMemory, file |-> f]
    ELSE IF IsNone(ReadJson(Val(f)))
    THEN [raised |-> TRUE, memory |-> AgentMemory, file |-> f]
    ELSE [raised |-> FALSE, memory |-> ParseMemory(Val(ReadJson(Val(f)))), file |-> f]

\* One entry of conversation_history.
Message(role, content, t) ==
    [role |-> role, content |-> content, timestamp |-> IsoFormat(t)]

\* An append that puts the new entry first.
AppendHistoryNewestFirst(m, role, content, t) ==
    [m EXCEPT !.conversation_history = <<Message(role, content, t)>> \o @]

\* conversation_history.append({...})
AppendHistory(m, role, content, t) ==
    [m EXCEPT !.conversation_history = Append(@, Message(role, content, t))]

-----------------------------------------------------------------------------
(* CodingAgent.plan_task, execute_step, evaluate_result *)

\* A fallback plan whose description is the whole request.
FallbackPlanWholeRequest(user_request, text, t) ==
    [task_id |-> "task_" \o ToString(t),
     description |-> user_request,
     steps |-> <<text>>,
     status |-> "pending",
     created_at |-> t,
     completed_at |-> None]

\* The fallback plan of plan_task's except branch.
FallbackPlan(user_request, text, t) ==
    [task_id |-> "task_" \o ToString(t),
     description |-> SubSeq(user_request, 1, Min(Len(user_request), DescriptionLimit)),
     steps |-> <<text>>,
     status |-> "pending",
     created_at |-> t,
     completed_at |-> None]

\* plan_task(user_request) on memory m and file f at time t, when the LLM
\* answers resp (None: the call raises).  raised: an exception leaves plan_task;
\* ret: Some(index of the returned plan in task_plans), or None for Python's None.
plan_task(m, f, user_request, resp, t) ==
    IF IsNone(resp) THEN [raised |-> TRUE, ret |-> None, memory |-> m, file |-> f]
    ELSE
    LET response_text == Val(resp)
        json_match == ReSearch(response_text)
        plan_data == IF IsNone(json_match) THEN None ELSE JsonLoads(Val(json_match))
        parsed == IF IsNone(plan_data) THEN None ELSE TaskPlan(Val(plan_data), t)
        good == [m EXCEPT !.task_plans = Append(@, Val(parsed))]
        fallback == [m EXCEPT !.task_plans =
                         Append(@, FallbackPlan(user_request, response_text, t))]
    IN  IF IsNone(json_match)
        THEN [raised |-> FALSE, ret |-> None, memory |-> m, file |-> f]
        ELSE IF IsNone(parsed)
        THEN [raised |-> FALSE, ret |-> Some(Len(fallback.task_plans)),
              memory |-> fallback, file |-> f]
        ELSE [raised |-> FALSE, ret |-> Some(Len(good.task_plans)),
              memory |-> good, file |-> save_to_file(good)]

\* conversation_history[-5:]
HistoryWindow == 5

\* A window that also drops the newest entry.
RecentHistoryStale(h) ==
    SubSeq(h, IF Len(h) > HistoryWindow THEN Len(h) - HistoryWindow ELSE 1, Len(h) - 1)

\* recent_history (line 189): the last HistoryWindow entries of h, all of h
\* when it has fewer.
RecentHistory(h) ==
    SubSeq(h, IF Len(h) > HistoryWindow THEN Len(h) - HistoryWindow + 1 ELSE 1, Len(h))

\* What execution_prompt (lines 191-199) is built from: the step, the
\* context and the recent history.
ExecutionPrompt(m, step, ctx) ==
    [step |-> step, context |-> ctx,
     recent_history |-> RecentHistory(m.conversation_history)]

\* An execute_step that stores the step it was given, not the response.
execute_step_storing_step(m, step, ctx, resp, t) ==
    IF IsNone(resp) THEN [raised |-> TRUE, result |-> None, memory |-> m]
    ELSE [raised |-> FALSE,
          result |-> [step |-> step, response |-> Val(resp),
                      timestamp |-> IsoFormat(t), success |-> TRUE],
          memory |-> AppendHistory(m, "assistant", step, t)]

\* execute_step(step, context) on memory m at time t, when the LLM answers resp.
execute_step(m, step, ctx, resp, t) ==
    IF IsNone(resp) THEN [raised |-> TRUE, result |-> None, memory |-> m]
    ELSE [raised |-> FALSE,
          result |-> [step |-> step, response |-> Val(resp),
                      timestamp |-> IsoFormat(t), success |-> TRUE],
          memory |-> AppendHistory(m, "assistant", Val(resp), t)]

\* An upsert that restarts first_seen whenever the learning is seen again.
UpsertLearningRestamp(patterns, learning, t) ==
    IF learning \notin DOMAIN patterns
    THEN (learning :> [count |-> 1, first_seen |-> IsoFormat(t)]) @@ patterns
    ELSE [patterns EXCEPT ![learning].count = @ + 1,
                          ![learning].first_seen = IsoFormat(t)]

\* The body of the loop over evaluation["learnings"].
UpsertLearning(patterns, learning, t) ==
    IF learning \notin DOMAIN patterns
    THEN (learning :> [count |-> 1, first_seen |-> IsoFormat(t)]) @@ patterns
    ELSE [patterns EXCEPT ![learning].count = @ + 1]

RECURSIVE StoreLearnings(_, _, _)
StoreLearnings(patterns, learnings, t) ==
    IF learnings = <<>> THEN patterns
    ELSE StoreLearnings(UpsertLearning(patterns, Head(learnings), t), Tail(learnings), t)

\* The items the loop over evaluation["learnings"] handles before the test
\* `learning not in self.memory.learned_patterns` (line 271) raises
\* TypeError on an unhashable item: all of them when there is none.
RECURSIVE HashablePrefix(_)
HashablePrefix(learnings) ==
    IF learnings = <<>> \/ Head(learnings) \in Unhashable THEN <<>>
    ELSE <<Head(learnings)>> \o HashablePrefix(Tail(learnings))

\* A record that keeps the result without its response.
ErrorRecordWithoutResponse(ev, result, t) ==
    [timestamp |-> IsoFormat(t), errors |-> ev.errors,
     context |-> [result EXCEPT !.response = <<>>]]

\* The record evaluate_result appends to error_log.
ErrorRecord(ev, result, t) ==
    [timestamp |-> IsoFormat(t), errors |-> ev.errors, context |-> result]

\* The evaluation evaluate_result returns from its except branch.
DefaultEvaluation(exc) ==
    [success |-> FALSE, errors |-> <<exc>>, next_action |-> "retry", learnings |-> <<>>]

\* evaluate_result(result) on memory m and file f at time t, when the LLM
\* answers resp.  ret: Some(the returned dict), or None for Python's None.
evaluate_result(m, f, result, resp, t) ==
    IF IsNone(resp) THEN [raised |-> TRUE, ret |-> None, memory |-> m, file |-> f]
    ELSE
    LET json_match == ReSearch(Val(resp))
        decoded == IF IsNone(json_match) THEN None ELSE JsonLoads(Val(json_match))
        ev == Val(decoded)
        stored == HashablePrefix(Get(ev, "learnings", <<>>))
        m1 == IF Truthy(Get(ev, "learnings", None))
              THEN [m EXCEPT !.learned_patterns = StoreLearnings(@, stored, t)]
              ELSE m
        m2 == IF Truthy(Get(ev, "errors", None))
              THEN [m1 EXCEPT !.error_log = Append(@, ErrorRecord(ev, result, t))]
              ELSE m1
    IN  IF IsNone(json_match)
        THEN [raised |-> FALSE, ret |-> None, memory |-> m, file |-> f]
        ELSE IF IsNone(decoded)
        THEN [raised |-> FALSE, ret |-> Some(DefaultEvaluation("JSONDecodeError")),
              memory |-> m, file |-> f]
        ELSE IF stored # Get(ev, "learnings", <<>>)
        THEN [raised |-> FALSE, ret |-> Some(DefaultEvaluation("TypeError")),
              memory |-> m1, file |-> f]
        ELSE [raised |-> FALSE, ret |-> Some(ev),
              memory |-> m2, file |-> save_to_file(m2)]

-----------------------------------------------------------------------------
(* Inputs *)

\* The requests users make.
Requests == { <<"fix", "bug">> }

\* What the LLM may answer to the planning prompt; None: the call raises.
PlanResponses ==
    { None,
      Some(<<"w">>),                          \* prose, no JSON object
      Some(<<"w", "{", "w">>),                \* an opening brace only
      Some(<<"{", "w", "}">>),                \* braces around malformed JSON
      Some(<<"{", "PM", "}">>),               \* an object without steps
      Some(<<"{", "P0", "}">>),
      Some(<<"w", "{", "P1", "}", "w">>),
      Some(<<"{", "P2", "}">>),
      Some(<<"{", "PX", "}">>),
      Some(<<"{", "P1", "}", "w", "}">>) }    \* an object, then more text with "}"

\* What the LLM may answer to the execution prompt.
ExecResponses == { None, Some(<<"r">>) }

\* What the LLM may answer to the evaluation prompt.
EvalResponses ==
    { None,
      Some(<<"w">>),
      Some(<<"{", "w", "}">>),
      Some(<<"{", "}">>),
      Some(<<"{", "EOK", "}">>),
      Some(<<"w", "{", "EFAIL", "}">>) }

-----------------------------------------------------------------------------
(* CodingAgent.execute_task *)

\* The learnings an evaluation response carries when it decodes.
EmittedBy(resp) ==
    IF IsNone(resp) \/ IsNone(ReSearch(Val(resp))) THEN <<>>
    ELSE LET d == JsonLoads(Val(ReSearch(Val(resp))))
         IN  IF IsNone(d) THEN <<>> ELSE Get(Val(d), "learnings", <<>>)

Occurrences(seq, x) == Cardinality({k \in 1..Len(seq) : seq[k] = x})

\* emitted after an evaluation at time t emitted the learnings ls.
Emit(em, ls, t) ==
    [l \in DOMAIN em \cup {ls[k] : k \in 1..Len(ls)} |->
        [count |-> (IF l \in DOMAIN em THEN em[l].count ELSE 0) + Occurrences(ls, l),
         first |-> IF l \in DOMAIN em THEN em[l].first ELSE t]]

\* fix_prompt (lines 341-345)
FixPrompt(ev, step) ==
    <<"failed with errors:">> \o Get(ev, "errors", <<>>)
        \o <<"Original step:">> \o step \o <<"Please fix">>

\* f"step_{i+1}" for the 1-based step number n
ContextKey(n) == "step_" \o ToString(n)

ExecCall(n, a, step) == [op |-> "execute_step", i |-> n, attempt |-> a, step |-> step]
EvalCall(n, a) == [op |-> "evaluate_result", i |-> n, attempt |-> a]

\* A loop that retries only on an evaluation that says success is false.
AfterEvaluationRequiringField(a, ev) ==
    IF a = "orig" /\ "success" \in DOMAIN ev /\ ~ev.success THEN "retry" ELSE "next"

\* A loop that retries a step for as long as its evaluation fails.
AfterEvaluationUntilSuccess(a, ev) ==
    IF ~Get(ev, "success", FALSE) THEN "retry" ELSE "next"

\* What the loop does once evaluate_result has returned ev for attempt a of a
\* step: lines 337-351 retry the step after a failed first evaluation, lines
\* 352-355 only print.
AfterEvaluation(a, ev) ==
    IF a = "orig" /\ ~Get(ev, "success", FALSE) THEN "retry" ELSE "next"

\* A loop that stops one step early.
HasNextStepButLast(n, steps) == n + 1 < Len(steps)

\* for i, step in enumerate(plan.steps): is there a step after step n?
HasNextStep(n, steps) == n < Len(steps)

\* Marking the plan completed, with the task_id recorded twice.
MarkCompletedTwice(m, idx, t) ==
    [m EXCEPT !.task_plans[idx].status = "completed",
              !.task_plans[idx].completed_at = Some(t),
              !.completed_tasks = Append(Append(@, m.task_plans[idx].task_id),
                                         m.task_plans[idx].task_id)]

\* Lines 358-360: mark plan idx completed at time t.
MarkCompleted(m, idx, t) ==
    [m EXCEPT !.task_plans[idx].status = "completed",
              !.task_plans[idx].completed_at = Some(t),
              !.completed_tasks = Append(@, m.task_plans[idx].task_id)]

\* A loop that records the retry's result and evaluation over the step's own.
RecordStepAndRetry(ctx, a, n, entry) == (ContextKey(n) :> entry) @@ ctx

\* Lines 330-334, which only the step's own attempt reaches: the step's
\* description, result and evaluation go into the context. The retry
\* (lines 348-355) writes nothing there.
RecordStep(ctx, a, n, entry) ==
    IF a = "orig" THEN (ContextKey(n) :> entry) @@ ctx ELSE ctx

\* A handler ran to its end: if it saved, what it wrote is the content of
\* the last completed save.
CompletedSave == durable' = IF file' = file THEN durable ELSE file'

\* An execute_task that marks its plan completed on the way out of an error.
RaiseAfterCompleting(exc, m, f) ==
    /\ memory' = IF IsNone(plan) THEN m ELSE MarkCompleted(m, Val(plan), now')
    /\ file' = f
    /\ pc' = "idle"
    /\ outcome' = exc
    /\ ret' = None
    /\ prompt' = None
    /\ UNCHANGED <<attempt, i, arg, calls>>

\* An exception exc leaves execute_task with memory m and file f.
Raise(exc, m, f) ==
    /\ memory' = m
    /\ file' = f
    /\ pc' = "idle"
    /\ outcome' = exc
    /\ ret' = None
    /\ prompt' = None
    /\ UNCHANGED <<attempt, i, arg, calls>>

\* A return that reports one result per step of the plan.
CompleteWithoutRetryResults(m, idx, res) ==
    LET done == MarkCompleted(m, idx, now')
    IN  /\ memory' = done
        /\ file' = save_to_file(done)
        /\ pc' = "idle"
        /\ outcome' = "returned"
        /\ ret' = Some([plan |-> done.task_plans[idx],
                        results |-> SubSeq(res, 1, Len(done.task_plans[idx].steps)),
                        success |-> TRUE, timestamp |-> IsoFormat(now')])
        /\ prompt' = None
        /\ UNCHANGED <<attempt, i, arg, calls>>

\* A return whose success flag tells whether any step needed its retry.
CompleteReportingRetries(m, idx, res) ==
    LET done == MarkCompleted(m, idx, now')
    IN  /\ memory' = done
        /\ file' = save_to_file(done)
        /\ pc' = "idle"
        /\ outcome' = "returned"
        /\ ret' = Some([plan |-> done.task_plans[idx], results |-> res,
                        success |-> Len(res) = Len(done.task_plans[idx].steps),
                        timestamp |-> IsoFormat(now')])
        /\ prompt' = None
        /\ UNCHANGED <<attempt, i, arg, calls>>

\* Lines 357-370: the loop is over; mark the plan completed, save and return.
Complete(m, idx, res) ==
    LET done == MarkCompleted(m, idx, now')
    IN  /\ memory' = done
        /\ file' = save_to_file(done)
        /\ pc' = "idle"
        /\ outcome' = "returned"
        /\ ret' = Some([plan |-> done.task_plans[idx], results |-> res,
                        success |-> TRUE, timestamp |-> IsoFormat(now')])
        /\ prompt' = None
        /\ UNCHANGED <<attempt, i, arg, calls>>

\* The loop calls execute_step for step n (attempt a) with the given text.
CallExecute(n, a, step) ==
    /\ pc' = "exec"
    /\ i' = n
    /\ attempt' = a
    /\ arg' = step
    /\ calls' = Append(calls, ExecCall(n, a, step))
    /\ prompt' = Some(ExecutionPrompt(memory', step, context'))
    /\ UNCHANGED <<outcome, ret>>

\* Lines 302-309: record the request and call plan_task.
StartTask(user_request) ==
    /\ pc = "idle"
    /\ now < MaxClock
    /\ memory' = AppendHistory(memory, "user", user_request, now)
    /\ pc' = "plan"
    /\ request' = user_request
    /\ plan' = None
    /\ i' = 0
    /\ attempt' = "orig"
    /\ context' = <<>>
    /\ results' = <<>>
    /\ evaluation' = None
    /\ retry_evaluation' = None
    /\ outcome' = "none"
    /\ ret' = None
    /\ arg' = user_request
    /\ calls' = <<[op |-> "plan_task"]>>
    /\ prompt' = None
    /\ replies' = <<>>
    /\ lastOp' = "execute_task"
    /\ UNCHANGED <<file, now, emitted>>
    /\ CompletedSave
    /\ UNCHANGED ToolVars

\* plan_task's LLM call ends: lines 160-182, and line 309 binds what it
\* returned.
PlanReturn(resp) ==
    /\ pc = "plan"
    /\ now' = now + 1
    /\ replies' = Append(replies, resp)
    /\ lastOp' = "plan_task"
    /\ UNCHANGED <<request, context, results, evaluation, retry_evaluation, emitted>>
    /\ LET r == plan_task(memory, file, request, resp, now')
       IN  IF r.raised
           THEN /\ Raise("LLMError", r.memory, r.file)
                /\ UNCHANGED plan
           ELSE /\ memory' = r.memory
                /\ file' = r.file
                /\ plan' = r.ret
                /\ pc' = "planned"
                /\ UNCHANGED <<attempt, i, arg, calls, outcome, ret, prompt>>
    /\ CompletedSave
    /\ UNCHANGED ToolVars

\* Lines 310-323: the plan becomes the current one and is put in progress,
\* the context is created and the loop starts (lines 357-370 for a plan
\* without steps).
BeginLoop ==
    /\ pc = "planned"
    /\ lastOp' = "begin_loop"
    /\ UNCHANGED <<now, request, plan, replies, evaluation, retry_evaluation, emitted>>
    /\ IF IsNone(plan)
       THEN \* `plan.status = ...` on None (line 313) is an AttributeError
            /\ Raise("AttributeError", memory, file)
            /\ UNCHANGED <<context, results>>
       ELSE LET idx == Val(plan)
                m == [memory EXCEPT !.task_plans[idx].status = "in_progress"]
                steps == m.task_plans[idx].steps
            IN  /\ context' = ("request" :> request)
                /\ results' = <<>>
                /\ IF steps = <<>>
                   THEN Complete(m, idx, <<>>)
                   ELSE /\ memory' = m
                        /\ UNCHANGED file
                        /\ CallExecute(1, "orig", steps[1])
    /\ CompletedSave
    /\ UNCHANGED ToolVars

\* execute_step's LLM call ends: lines 210-227, then 324-327 or 348-351.
ExecReturn(resp) ==
    /\ pc = "exec"
    /\ now' = now + 1
    /\ replies' = Append(replies, resp)
    /\ lastOp' = "execute_step"
    /\ UNCHANGED <<request, plan, context, evaluation, retry_evaluation, emitted>>
    /\ LET r == execute_step(memory, arg, context, resp, now')
       IN  IF r.raised
           THEN /\ Raise("LLMError", r.memory, file)
                /\ UNCHANGED results
           ELSE /\ memory' = r.memory
                /\ results' = Append(results, r.result)
                /\ pc' = "eval"
                /\ arg' = r.result
                /\ calls' = Append(calls, EvalCall(i, attempt))
                /\ prompt' = None
                /\ UNCHANGED <<file, attempt, i, outcome, ret>>
    /\ CompletedSave
    /\ UNCHANGED ToolVars

\* evaluate_result's LLM call ends: lines 258-295, then 330-347 after the
\* step's own evaluation and 352-355 after its retry's, then the next
\* iteration or lines 357-370.
EvalReturn(resp) ==
    /\ pc = "eval"
    /\ now' = now + 1
    /\ replies' = Append(replies, resp)
    /\ lastOp' = "evaluate_result"
    /\ emitted' = Emit(emitted, EmittedBy(resp), now')
    /\ UNCHANGED <<request, plan, results>>
    /\ LET r == evaluate_result(memory, file, arg, resp, now')
           steps == memory.task_plans[Val(plan)].steps
       IN  IF r.raised
           THEN /\ Raise("LLMError", r.memory, r.file)
                /\ UNCHANGED <<context, evaluation, retry_evaluation>>
           ELSE /\ IF attempt = "orig"
                   THEN /\ evaluation' = r.ret
                        /\ UNCHANGED retry_evaluation
                   ELSE /\ retry_evaluation' = r.ret
                        /\ UNCHANGED evaluation
                /\ context' = RecordStep(context, attempt, i,
                                         [description |-> steps[i], result |-> arg,
                                          evaluation |-> r.ret])
                /\ IF IsNone(r.ret)
                   THEN \* `.get` on None (lines 337, 352) is an AttributeError
                        Raise("AttributeError", r.memory, r.file)
                   ELSE IF AfterEvaluation(attempt, Val(r.ret)) = "retry"
                   THEN /\ memory' = r.memory
                        /\ file' = r.file
                        /\ CallExecute(i, "fix", FixPrompt(Val(r.ret), steps[i]))
                   ELSE IF HasNextStep(i, steps)
                   THEN /\ memory' = r.memory
                        /\ file' = r.file
                        /\ CallExecute(i + 1, "orig", steps[i + 1])
                   ELSE Complete(r.memory, Val(plan), results)
    /\ CompletedSave
    /\ UNCHANGED ToolVars

-----------------------------------------------------------------------------
(* chat_interface.py: /save and /load; CodingAgent.initialize loads too *)

TaskVars == <<pc, attempt, request, plan, i, context, results, evaluation,
              retry_evaluation, outcome, ret, arg, calls, replies, prompt>>

\* handle_command('/save')
SaveCommand ==
    /\ pc = "idle"
    /\ file' = save_to_file(memory)
    /\ lastOp' = "save"
    /\ UNCHANGED <<memory, now, emitted, TaskVars>>
    /\ CompletedSave
    /\ UNCHANGED ToolVars

\* handle_command('/load') and CodingAgent.initialize
LoadCommand ==
    /\ pc = "idle"
    /\ LET r == load_from_file(file)
       IN  /\ memory' = IF r.raised THEN memory ELSE r.memory
           /\ file' = r.file
           /\ lastOp' = IF r.raised THEN "load_raised" ELSE "load"
    /\ UNCHANGED <<now, emitted, TaskVars>>
    /\ CompletedSave
    /\ UNCHANGED ToolVars

\* The keywords that make CodingAgent.chat run its message as a task.
TaskKeywords ==
    {"create", "build", "implement", "write", "develop", "fix", "debug",
     "refactor", "test", "deploy", "setup", "install", "configure"}

\* str.lower, on the letters the inputs use.
Lower(c) == IF c = "Y" THEN "y" ELSE IF c = "T" THEN "t" ELSE c

\* The characters of a word; a word not listed is one character.
Letters(word) ==
    CASE word = "create" -> <<"c", "r", "e", "a", "t", "e">>
      [] word = "build" -> <<"b", "u", "i", "l", "d">>
      [] word = "implement" -> <<"i", "m", "p", "l", "e", "m", "e", "n", "t">>
      [] word = "write" -> <<"w", "r", "i", "t", "e">>
      [] word = "develop" -> <<"d", "e", "v", "e", "l", "o", "p">>
      [] word = "fix" -> <<"f", "i", "x">>
      [] word = "debug" -> <<"d", "e", "b", "u", "g">>
      [] word = "refactor" -> <<"r", "e", "f", "a", "c", "t", "o", "r">>
      [] word = "test" -> <<"t", "e", "s", "t">>
      [] word = "deploy" -> <<"d", "e", "p", "l", "o", "y">>
      [] word = "setup" -> <<"s", "e", "t", "u", "p">>
      [] word = "install" -> <<"i", "n", "s", "t", "a", "l", "l">>
      [] word = "configure" -> <<"c", "o", "n", "f", "i", "g", "u", "r", "e">>
      [] word = "hello" -> <<"h", "e", "l", "l", "o">>
      [] word = "Tests" -> <<"T", "e", "s", "t", "s">>
      [] word = "pass" -> <<"p", "a", "s", "s">>
      [] word = "bug" -> <<"b", "u", "g">>
      [] OTHER -> <<word>>

\* The characters of a text: its words, one blank between two of them.
RECURSIVE Characters(_)
Characters(text) ==
    IF text = <<>> THEN <<>>
    ELSE IF Len(text) = 1 THEN Letters(text[1])
    ELSE Letters(text[1]) \o <<" ">> \o Characters(Tail(text))

\* str.lower
LowerText(chars) == [k \in 1..Len(chars) |-> Lower(chars[k])]

\* Python's `sub in text` on strings.
Contains(chars, sub) ==
    \E k \in 1..(Len(chars) - Len(sub) + 1) :
        SubSeq(chars, k, k + Len(sub) - 1) = sub

\* A routing that looks for the keywords among the words of the message.
is_task_whole_words(message) ==
    \E k \in 1..Len(message) : message[k] \in TaskKeywords

\* chat, lines 377-380: some keyword occurs in the lower-cased message.
is_task(message) ==
    LET lowered == LowerText(Characters(message))
    IN  \E keyword \in TaskKeywords : Contains(lowered, Letters(keyword))

\* The messages that are questions, the LLM's answers to them (None: the
\* call raised), and the answers to the /reset prompt.
Questions == { <<"hello">> }
ChatResponses == { None, Some(<<"a">>) }
Confirmations == { "y", "Y", "n" }

\* chat on a message that is not a task, lines 393-422: the LLM call, then
\* the two history entries and the save.
ChatQuestion(message, resp) ==
    /\ pc = "idle"
    /\ now < MaxClock
    /\ ~is_task(message)
    /\ now' = now + 1
    /\ IF IsNone(resp)
       THEN /\ lastOp' = "chat_raised"
            /\ UNCHANGED <<memory, file>>
       ELSE LET m1 == AppendHistory(memory, "user", message, now')
                m2 == AppendHistory(m1, "assistant", Val(resp), now')
            IN  /\ memory' = m2
                /\ file' = save_to_file(m2)
                /\ lastOp' = "chat"
    /\ UNCHANGED <<emitted, TaskVars>>
    /\ CompletedSave
    /\ UNCHANGED ToolVars

\* A reset that forgets the plans and keeps the rest.
ResetPlansOnly(m) == [m EXCEPT !.task_plans = <<>>]

\* type(self.agent.memory)(), chat_interface.py line 239.
ResetMemory(m) == AgentMemory

\* A /reset that replaces the memory and does not save it.
ResetCommandUnsaved(confirm) ==
    /\ pc = "idle"
    /\ IF Lower(confirm) = "y"
       THEN /\ memory' = ResetMemory(memory)
            /\ emitted' = <<>>
            /\ lastOp' = "reset"
            /\ UNCHANGED file
       ELSE /\ lastOp' = "reset_cancelled"
            /\ UNCHANGED <<memory, file, emitted>>
    /\ UNCHANGED <<now, TaskVars>>
    /\ CompletedSave
    /\ UNCHANGED ToolVars

\* handle_command('/reset') with the answer given to its prompt.
ResetCommand(confirm) ==
    /\ pc = "idle"
    /\ IF Lower(confirm) = "y"
       THEN /\ memory' = ResetMemory(memory)
            /\ file' = save_to_file(memory')
            /\ emitted' = <<>>
            /\ lastOp' = "reset"
       ELSE /\ lastOp' = "reset_cancelled"
            /\ UNCHANGED <<memory, file, emitted>>
    /\ UNCHANGED <<now, TaskVars>>
    /\ CompletedSave
    /\ UNCHANGED ToolVars

-----------------------------------------------------------------------------

-----------------------------------------------------------------------------
(* The tool server's file tools (mcp_dev_server.py): read_file and
   write_file.  A file's text is a sequence of characters; "CR" and "LF" are
   the carriage return and the line feed, "a" is any other character. *)

MaxContentLen == 2

Chars == {"a", "CR", "LF"}

Paths == {"p", "q"}

\* The contents a caller passes to write_file.
Contents == UNION { [1..n -> Chars] : n \in 0..MaxContentLen }

\* os.linesep of the platform the server runs on (POSIX).
os_linesep == <<"LF">>

\* Writing through a file opened in text mode with the default newline=None
\* (line 57, mode 'w'): every line feed is written as os.linesep.
RECURSIVE TranslateOnWrite(_)
TranslateOnWrite(content) ==
    IF content = <<>> THEN <<>>
    ELSE (IF Head(content) = "LF" THEN os_linesep ELSE <<Head(content)>>)
         \o TranslateOnWrite(Tail(content))

\* Reading through a file opened in text mode with the default newline=None
\* (line 32, mode 'r'): universal newlines, the line endings CR LF and CR
\* are both returned as one line feed.
RECURSIVE UniversalNewlines(_)
UniversalNewlines(text) ==
    IF text = <<>> THEN <<>>
    ELSE IF Head(text) = "CR"
    THEN IF Len(text) >= 2 /\ text[2] = "LF"
         THEN <<"LF">> \o UniversalNewlines(Tail(Tail(text)))
         ELSE <<"LF">> \o UniversalNewlines(Tail(text))
    ELSE <<Head(text)>> \o UniversalNewlines(Tail(text))

\* write_file (lines 41-61): the file is created or emptied and the content
\* written; the return value is the success message.
write_file(d, path, content) ==
    [disk |-> [d EXCEPT ![path] = Some(TranslateOnWrite(content))],
     ret  |-> <<"Successfully wrote to ", path>>]

\* read_file (lines 20-38): the text of the file, or the message of
\* FileNotFoundError, both plain strings.
read_file(d, path) ==
    IF IsNone(d[path])
    THEN <<"Error: File not found: ", path>>
    ELSE UniversalNewlines(Val(d[path]))

\* Everything of the agent; the tool server runs apart from it.
AgentVars == <<memory, file, now, pc, attempt, request, plan, i, context,
               results, evaluation, retry_evaluation, outcome, ret, arg,
               calls, replies, emitted, durable, prompt>>

\* A call of the write_file tool.
WriteFile(path, content) ==
    /\ LET r == write_file(disk, path, content)
       IN  /\ disk' = r.disk
           /\ tool_ret' = Some([tool |-> "write_file", path |-> path, value |-> r.ret])
    /\ written' = [written EXCEPT ![path] = Some(content)]
    /\ lastOp' = "write_file"
    /\ UNCHANGED AgentVars

\* A call of the read_file tool.
ReadFile(path) ==
    /\ tool_ret' = Some([tool |-> "read_file", path |-> path,
                         value |-> read_file(disk, path)])
    /\ lastOp' = "read_file"
    /\ UNCHANGED <<disk, written, AgentVars>>

Init ==
    /\ memory = AgentMemory
    /\ file = None
    /\ now = 0
    /\ pc = "idle"
    /\ attempt = "orig"
    /\ request = <<>>
    /\ plan = None
    /\ i = 0
    /\ context = <<>>
    /\ results = <<>>
    /\ evaluation = None
    /\ retry_evaluation = None
    /\ outcome = "none"
    /\ ret = None
    /\ arg = <<>>
    /\ calls = <<>>
    /\ replies = <<>>
    /\ emitted = <<>>
    /\ lastOp = "init"
    /\ durable = None
    /\ prompt = None
    /\ disk = [path \in Paths |-> None]
    /\ tool_ret = None
    /\ written = [path \in Paths |-> None]

Next ==
    \/ \E user_request \in Requests : StartTask(user_request)
    \/ \E resp \in PlanResponses : PlanReturn(resp)
    \/ BeginLoop
    \/ \E resp \in ExecResponses : ExecReturn(resp)
    \/ \E resp \in EvalResponses : EvalReturn(resp)
    \/ \E message \in Questions, resp \in ChatResponses : ChatQuestion(message, resp)
    \/ SaveCommand
    \/ LoadCommand
    \/ \E confirm \in Confirmations : ResetCommand(confirm)

Spec == Init /\ [][Next]_vars

-----------------------------------------------------------------------------
(* Tasks alone, with a request longer than the description of a fallback plan *)

\* A request of DescriptionLimit + 1 words.
LongRequest == [k \in 1..(DescriptionLimit + 1) |-> IF k = 1 THEN "fix" ELSE "x"]

TaskRequests == Requests \cup {LongRequest}

\* A process that is given tasks through execute_task and nothing else.
TaskNext ==
    \/ \E user_request \in TaskRequests : StartTask(user_request)
    \/ \E resp \in PlanResponses : PlanReturn(resp)
    \/ BeginLoop
    \/ \E resp \in ExecResponses : ExecReturn(resp)
    \/ \E resp \in EvalResponses : EvalReturn(resp)

TaskSpec == Init /\ [][TaskNext]_vars

-----------------------------------------------------------------------------
(* The process stopping at a suspension point: an LLM call, the prompt, or
   the write of save_to_file (lines 40-43: the file is opened with 'w', which
   empties it, and the text is written in place) *)

\* A new process: CodingAgent.__init__ (lines 65-80), nothing of the old
\* process's memory left.
Restarted ==
    /\ memory' = AgentMemory
    /\ pc' = "idle"
    /\ attempt' = "orig"
    /\ request' = <<>>
    /\ plan' = None
    /\ i' = 0
    /\ context' = <<>>
    /\ results' = <<>>
    /\ evaluation' = None
    /\ retry_evaluation' = None
    /\ outcome' = "none"
    /\ ret' = None
    /\ arg' = <<>>
    /\ calls' = <<>>
    /\ replies' = <<>>
    /\ prompt' = None
    /\ UNCHANGED <<now, emitted>>
    /\ UNCHANGED ToolVars

\* The saves that /save and the task's handlers would run now: the content
\* each would write, and the content of the last save completed before it
\* starts (a handler that saves twice has completed its first save by then).
PendingSaves ==
    IF pc = "idle"
    THEN {[writing |-> save_to_file(memory), completed |-> durable]}
    ELSE IF pc = "plan"
    THEN {[writing |-> r.file, completed |-> durable] :
             r \in {x \in {plan_task(memory, file, request, resp, now + 1) :
                                resp \in PlanResponses} : x.file # file}}
    ELSE IF pc = "planned"
    THEN IF ~IsNone(plan) /\ memory.task_plans[Val(plan)].steps = <<>>
         THEN {[writing |-> save_to_file(MarkCompleted(
                               [memory EXCEPT !.task_plans[Val(plan)].status = "in_progress"],
                               Val(plan), now)),
                completed |-> durable]}
         ELSE {}
    ELSE IF pc = "eval"
    THEN LET rs == {evaluate_result(memory, file, arg, resp, now + 1) :
                       resp \in EvalResponses}
             steps == memory.task_plans[Val(plan)].steps
         IN  {[writing |-> r.file, completed |-> durable] :
                 r \in {x \in rs : x.file # file}}
             \cup {[writing |-> save_to_file(MarkCompleted(r.memory, Val(plan), now + 1)),
                    completed |-> IF r.file = file THEN durable ELSE r.file] :
                      r \in {x \in rs : /\ ~x.raised
                                         /\ ~IsNone(x.ret)
                                         /\ AfterEvaluation(attempt, Val(x.ret)) # "retry"
                                         /\ ~HasNextStep(i, steps)}}
    ELSE {}

\* The process stops while it waits for the LLM or for the user.
Crash ==
    /\ pc \in {"idle", "plan", "exec", "eval"}
    /\ now < MaxStopClock
    /\ Restarted
    /\ lastOp' = "crash"
    /\ UNCHANGED <<file, durable>>

\* The process stops inside save_to_file's write.
CrashInSave ==
    /\ now < MaxStopClock
    /\ \E s \in PendingSaves :
          /\ \E text \in TornTexts(Val(s.writing)) : file' = Some(text)
          /\ durable' = s.completed
    /\ Restarted
    /\ lastOp' = "crash_in_save"

\* A process that is given tasks, /save and /load, and may stop.
CrashNext ==
    \/ \E user_request \in Requests : StartTask(user_request)
    \/ \E resp \in PlanResponses : PlanReturn(resp)
    \/ BeginLoop
    \/ \E resp \in ExecResponses : ExecReturn(resp)
    \/ \E resp \in EvalResponses : EvalReturn(resp)
    \/ SaveCommand
    \/ LoadCommand
    \/ Crash
    \/ CrashInSave

CrashSpec == Init /\ [][CrashNext]_vars

-----------------------------------------------------------------------------
(* The chat loop ending: ChatInterface.run leaves its loop on /exit, /quit
   (handle_command returns False) or on end of input, and calls cleanup *)

\* What ends the chat loop.
ExitInputs == {"/exit", "/quit", "EOF"}

\* How the release of a resource (__aexit__ of the agent, of the tool-server
\* connection) ends: it returns or it raises.
ReleaseOutcomes == {"released", "raised"}

\* CodingAgent.cleanup (lines 129-136): the agent is released, then the
\* tool-server connection, then the memory is saved; nothing catches an
\* exception of the first two, and the second is not reached when the first
\* raises.
cleanup(m, f, agent_exit, mcp_exit) ==
    IF agent_exit = "raised"
    THEN [raised |-> TRUE, file |-> f]
    ELSE IF mcp_exit = "raised"
    THEN [raised |-> TRUE, file |-> f]
    ELSE [raised |-> FALSE, file |-> save_to_file(m)]

\* The end of ChatInterface.run: the loop is left at the prompt and cleanup
\* runs; the process is over afterwards.
EndChat(input, agent_exit, mcp_exit) ==
    /\ pc = "idle"
    /\ input \in ExitInputs
    /\ LET r == cleanup(memory, file, agent_exit, mcp_exit)
       IN  /\ file' = r.file
           /\ lastOp' = IF r.raised THEN "cleanup_raised" ELSE "cleanup"
    /\ pc' = "stopped"
    /\ UNCHANGED <<memory, now, emitted, attempt, request, plan, i, context,
                   results, evaluation, retry_evaluation, outcome, ret, arg,
                   calls, replies, prompt>>
    /\ CompletedSave
    /\ UNCHANGED ToolVars

\* A chat session of tasks that ends.
ShutdownNext ==
    \/ \E user_request \in Requests : StartTask(user_request)
    \/ \E resp \in PlanResponses : PlanReturn(resp)
    \/ BeginLoop
    \/ \E resp \in ExecResponses : ExecReturn(resp)
    \/ \E resp \in EvalResponses : EvalReturn(resp)
    \/ \E input \in ExitInputs, agent_exit \in ReleaseOutcomes,
          mcp_exit \in ReleaseOutcomes : EndChat(input, agent_exit, mcp_exit)

ShutdownSpec == Init /\ [][ShutdownNext]_vars

-----------------------------------------------------------------------------
(* Messages typed at the prompt: ChatInterface.process_message hands each to
   CodingAgent.chat, which routes it *)

\* A greeting, and a remark in which the keyword "test" occurs inside
\* another word and with a capital letter.
ChatMessages == { <<"hello">>, <<"Tests", "pass">> }

\* CodingAgent.chat (lines 372-422): execute_task when is_task, else the
\* question branch.
Chat(message) ==
    /\ pc = "idle"
    /\ \/ /\ is_task(message)
          /\ StartTask(message)
       \/ \E resp \in ChatResponses : ChatQuestion(message, resp)

ChatNext ==
    \/ \E message \in ChatMessages : Chat(message)
    \/ \E resp \in PlanResponses : PlanReturn(resp)
    \/ BeginLoop
    \/ \E resp \in ExecResponses : ExecReturn(resp)
    \/ \E resp \in EvalResponses : EvalReturn(resp)

ChatSpec == Init /\ [][ChatNext]_vars

-----------------------------------------------------------------------------
(* Tasks whose evaluation replies may carry text after the JSON object *)

\* The evaluation replies, and one with an object followed by text with "}".
TrailingEvalResponses ==
    EvalResponses \cup { Some(<<"{", "EOK", "}", "w", "}">>) }

ParseNext ==
    \/ \E user_request \in Requests : StartTask(user_request)
    \/ \E resp \in PlanResponses : PlanReturn(resp)
    \/ BeginLoop
    \/ \E resp \in ExecResponses : ExecReturn(resp)
    \/ \E resp \in TrailingEvalResponses : EvalReturn(resp)

ParseSpec == Init /\ [][ParseNext]_vars

-----------------------------------------------------------------------------
(* Tasks whose evaluation replies may list a learning that is not a string *)

\* The evaluation replies, and one whose learnings are a string and then a
\* JSON array.
MixedEvalResponses == EvalResponses \cup { Some(<<"{", "EMIX", "}">>) }

EvalNext ==
    \/ \E user_request \in Requests : StartTask(user_request)
    \/ \E resp \in PlanResponses : PlanReturn(resp)
    \/ BeginLoop
    \/ \E resp \in ExecResponses : ExecReturn(resp)
    \/ \E resp \in MixedEvalResponses : EvalReturn(resp)

EvalSpec == Init /\ [][EvalNext]_vars

-----------------------------------------------------------------------------
(* The tool server called directly, as the setup tests do *)

ToolNext ==
    \/ \E path \in Paths, content \in Contents : WriteFile(path, content)
    \/ \E path \in Paths : ReadFile(path)

ToolSpec == Init /\ [][ToolNext]_vars

-----------------------------------------------------------------------------
(* Properties of the execute_task loop *)

\* The execute_step calls made for step n, in order.
ExecCallsOf(n) ==
    SelectSeq(calls, LAMBDA c : c.op = "execute_step" /\ c.i = n)

\* The first evaluation of step n returned a dict whose success is not true.
FirstEvaluationFailed(n) ==
    /\ ContextKey(n) \in DOMAIN context
    /\ ~IsNone(context[ContextKey(n)].evaluation)
    /\ ~Get(Val(context[ContextKey(n)].evaluation), "success", FALSE)

StepNumbers == {c.i : c \in {calls[k] : k \in 2..Len(calls)}}

\* C1: a step whose first evaluation reports failure gets exactly two
\* execute_step calls, the first with the step's text and the second with
\* the fix prompt built from that evaluation; no step ever gets a third
\* call, and a second call is made only after a failed first evaluation.
C1_RetryAtMostOnce ==
    \A n \in StepNumbers :
        LET cs == ExecCallsOf(n)
            entry == context[ContextKey(n)]
        IN  /\ Len(cs) \in {1, 2}
            /\ cs[1].attempt = "orig"
            /\ pc # "idle" => cs[1].step = memory.task_plans[Val(plan)].steps[n]
            /\ FirstEvaluationFailed(n) =>
                   /\ Len(cs) = 2
                   /\ cs[1].step = entry.description
                   /\ cs[2] = ExecCall(n, "fix",
                                       FixPrompt(Val(entry.evaluation), entry.description))
            /\ Len(cs) = 2 => FirstEvaluationFailed(n)

\* The retry of step 1 was evaluated (as a failure again) and the loop went on.
C1_Witness ==
    /\ FirstEvaluationFailed(1)
    /\ ~IsNone(retry_evaluation)
    /\ ~Get(Val(retry_evaluation), "success", FALSE)
    /\ Len(ExecCallsOf(1)) = 2
    /\ \E k \in 1..Len(calls) : calls[k].op = "execute_step" /\ calls[k].i = 2

\* The reply that ended the task was a failed LLM call or a reply in which
\* the regular expression finds no JSON object.
LastReplyUnusable ==
    /\ replies # <<>>
    /\ LET last == replies[Len(replies)]
       IN  IsNone(last) \/ IsNone(ReSearch(Val(last)))

\* C2: the calls of a task follow the plan's order, one step at a time: each
\* execute_step is followed by its evaluate_result, a retry follows the
\* failed first evaluation of the same step, and step n+1 starts only after
\* step n's evaluation (and, when that failed, its retry's evaluation).  A
\* task that returns has attempted every step of its plan, and a task ends
\* early only on an unusable LLM reply, never on an evaluated failure.
C2_StepsInOrder ==
    /\ \A k \in 2..Len(calls) :
          LET c == calls[k]
              p == calls[k - 1]
          IN  IF k = 2 THEN c.op = "execute_step" /\ c.i = 1 /\ c.attempt = "orig"
              ELSE \/ p.op = "execute_step" /\ c = EvalCall(p.i, p.attempt)
                   \/ /\ p = EvalCall(c.i, "orig")
                      /\ c.op = "execute_step" /\ c.attempt = "fix"
                      /\ FirstEvaluationFailed(c.i)
                   \/ /\ p.op = "evaluate_result"
                      /\ c.op = "execute_step" /\ c.attempt = "orig" /\ c.i = p.i + 1
                      /\ p.attempt = "orig" => ~FirstEvaluationFailed(p.i)
    /\ outcome = "returned" =>
          \A n \in 1..Len(Val(ret).plan.steps) :
              /\ ExecCallsOf(n) # <<>>
              /\ ExecCallsOf(n)[1].step = Val(ret).plan.steps[n]
    /\ outcome \in {"LLMError", "AttributeError"} => LastReplyUnusable

\* A two-step task returned although both steps, and the last retry, were
\* evaluated as failed.
C2_Witness ==
    /\ outcome = "returned"
    /\ Len(Val(ret).plan.steps) = 2
    /\ FirstEvaluationFailed(1)
    /\ FirstEvaluationFailed(2)
    /\ ~Get(Val(retry_evaluation), "success", FALSE)
    /\ Len(calls) = 9

\* C3: a step of execute_task that returns appends the plan's task_id to
\* completed_tasks, once; no other step of execute_task changes
\* completed_tasks.
C3_CompletedOnce ==
    [][(pc # "idle" \/ pc' # "idle") =>
          IF pc' = "idle" /\ outcome' = "returned"
          THEN memory'.completed_tasks =
                   Append(memory.completed_tasks, Val(ret').plan.task_id)
          ELSE memory'.completed_tasks = memory.completed_tasks]_vars

\* A task returned after a failed evaluation and a failed retry evaluation,
\* and its task_id is the last entry of completed_tasks.
C3_Witness ==
    /\ outcome = "returned"
    /\ lastOp = "evaluate_result"
    /\ FirstEvaluationFailed(1)
    /\ ~Get(Val(retry_evaluation), "success", FALSE)
    /\ memory.completed_tasks # <<>>
    /\ memory.completed_tasks[Len(memory.completed_tasks)] = Val(ret).plan.task_id

-----------------------------------------------------------------------------
(* Replies without a decodable JSON object *)

\* The regular expression finds no "{...}" in text.
NoJsonObject(text) == IsNone(ReSearch(text))

\* text does not decode: no "{...}", or json.loads fails on the match.
Undecodable(text) == NoJsonObject(text) \/ IsNone(JsonLoads(Val(ReSearch(text))))

\* What evaluate_result returned for the evaluation call answered last.
LastEvaluation ==
    IF calls[Len(replies)].attempt = "orig" THEN evaluation ELSE retry_evaluation

IsDefaultEvaluation(ev) ==
    /\ DOMAIN ev = {"success", "errors", "next_action", "learnings"}
    /\ ev.success = FALSE
    /\ Len(ev.errors) = 1
    /\ ev.next_action = "retry"
    /\ ev.learnings = <<>>

\* C4: when the reply to a step's evaluation prompt holds no JSON object,
\* the evaluation recorded for the step is the default failure with
\* next_action "retry", and the next call is the one retry of that step.
C4_ProseEvaluationRetried ==
    \A k \in 1..Len(replies) :
        (/\ calls[k].op = "evaluate_result"
         /\ calls[k].attempt = "orig"
         /\ ~IsNone(replies[k])
         /\ NoJsonObject(Val(replies[k])))
        => /\ ContextKey(calls[k].i) \in DOMAIN context
           /\ ~IsNone(context[ContextKey(calls[k].i)].evaluation)
           /\ IsDefaultEvaluation(Val(context[ContextKey(calls[k].i)].evaluation))
           /\ Len(calls) > k
           /\ calls[k + 1].op = "execute_step"
           /\ calls[k + 1].i = calls[k].i
           /\ calls[k + 1].attempt = "fix"

\* C5: when the planning reply holds no JSON object, plan_task returns a
\* plan whose only step is the reply text, which execute_task then runs.
C5_PlanFallbackOnProse ==
    (/\ replies # <<>>
     /\ ~IsNone(replies[1])
     /\ NoJsonObject(Val(replies[1])))
    => /\ ~IsNone(plan)
       /\ Len(calls) >= 2
       /\ calls[2] = ExecCall(1, "orig", Val(replies[1]))

\* C6: once the planning call is over, whatever the LLM did, plan_task has
\* returned a TaskPlan and no exception has left it.
C6_PlanTaskNeverRaises ==
    replies # <<>> => ~IsNone(plan) /\ ~(Len(replies) = 1 /\ outcome = "LLMError")

\* C7: a reply to the evaluation prompt that does not decode makes
\* evaluate_result return the default failure evaluation.
C7_EvaluationDefaultOnUndecodable ==
    (/\ replies # <<>>
     /\ calls[Len(replies)].op = "evaluate_result"
     /\ ~IsNone(replies[Len(replies)])
     /\ Undecodable(Val(replies[Len(replies)])))
    => /\ ~IsNone(LastEvaluation)
       /\ IsDefaultEvaluation(Val(LastEvaluation))

-----------------------------------------------------------------------------
(* Properties of the memory *)

C10_MissingFileDefault ==
    [][(IsNone(file) /\ lastOp' \in {"load", "load_raised"}) =>
          /\ lastOp' = "load"
          /\ memory' = AgentMemory
          /\ IsNone(file')]_vars

\* A load found no file after a task had put entries into the memory.
C10_Witness ==
    /\ lastOp = "load"
    /\ IsNone(file)
    /\ memory = AgentMemory
    /\ replies # <<>>

-----------------------------------------------------------------------------
(* The persisted file across corrupt content and stopped processes *)

\* The file exists and its text does not decode.
CorruptFile == ~IsNone(file) /\ IsNone(ReadJson(Val(file)))

\* C11: a load of a file whose content does not decode raises to its
\* caller, where a load of a missing file returns an empty memory; the
\* caller's memory is not replaced by an empty one and the file keeps its
\* content.
C11_CorruptFileRaises ==
    [][(CorruptFile /\ lastOp' \in {"load", "load_raised"}) =>
          /\ lastOp' = "load_raised"
          /\ load_from_file(None).raised = FALSE
          /\ memory' = memory
          /\ file' = file]_vars

\* A load has raised on a file torn before its closing brace, in a process
\* whose memory holds an entry the load would have lost.
C11_Witness ==
    /\ lastOp = "load_raised"
    /\ CorruptFile
    /\ Len(Val(file)) = 2
    /\ memory.conversation_history # <<>>

\* C12: whatever a stopped save leaves in the file, a load accepts the file
\* only when it holds the complete content of a save that ran to its end.
C12_TornFileRejected ==
    (~IsNone(file) /\ ~load_from_file(file).raised) => file = durable

\* A save stopped after the members and before the closing brace, over the
\* content of an earlier completed save, and a load of the file raises.
C12_Witness ==
    /\ lastOp = "crash_in_save"
    /\ ~IsNone(durable)
    /\ Len(Val(file)) = 2
    /\ load_from_file(file).raised

\* C13: after the process stopped at a suspension point, a load returns the
\* memory written by the last save that ran to its end.
C13_LastCompletedSaveSurvives ==
    lastOp \in {"crash", "crash_in_save"} =>
        LET r == load_from_file(file)
        IN  ~r.raised /\ r.memory = load_from_file(durable).memory

-----------------------------------------------------------------------------
(* task_plans, completed_tasks and the status of a plan *)

\* C14: completed_tasks is never longer than task_plans, after any sequence
\* of tasks (returned or ended by an error), chats, resets, saves and loads.
C14_CompletedWithinPlans ==
    Len(memory.completed_tasks) <= Len(memory.task_plans)

\* A load has brought back a memory with two plans, one of a task that
\* returned and one of a task that an error ended.
C14_Witness ==
    /\ lastOp = "load"
    /\ Len(memory.task_plans) = 2
    /\ Len(memory.completed_tasks) = 1
    /\ outcome \in {"LLMError", "AttributeError"}

\* The plans of memory m that carry the task_id id.
PlansWithId(m, id) == {k \in 1..Len(m.task_plans) : m.task_plans[k].task_id = id}

\* C15: every task_id in completed_tasks is the task_id of exactly one plan
\* in task_plans, and that plan is completed, whatever task_ids the LLM
\* puts in its plans.
C15_CompletedHaveOnePlan ==
    \A n \in 1..Len(memory.completed_tasks) :
        LET ps == PlansWithId(memory, memory.completed_tasks[n])
        IN  /\ Cardinality(ps) = 1
            /\ \A k \in ps : memory.task_plans[k].status = "completed"

\* The place of a status on the path pending, in_progress, completed.
StatusRank(status) ==
    IF status = "pending" THEN 0 ELSE IF status = "in_progress" THEN 1 ELSE 2

\* C16: no step of execute_task moves the status of a plan back along
\* pending, in_progress, completed, and none sets a status to failed.
C16_StatusForwardOnly ==
    [][pc # "idle" =>
          /\ \A k \in 1..Len(memory.task_plans) :
                 StatusRank(memory'.task_plans[k].status)
                     >= StatusRank(memory.task_plans[k].status)
          /\ \A k \in 1..Len(memory'.task_plans) :
                 memory'.task_plans[k].status # "failed"]_vars

\* C17: a plan whose status is pending or in_progress has no completed_at.
C17_CompletedAtOnlyWhenCompleted ==
    \A k \in 1..Len(memory.task_plans) :
        memory.task_plans[k].status \in {"pending", "in_progress"}
            => IsNone(memory.task_plans[k].completed_at)

-----------------------------------------------------------------------------
(* How execute_task ends, and what the retry leaves in the context *)

\* C18: a step of a task in which the LLM call raises ends execute_task
\* with that error: nothing is returned, completed_tasks is not appended to
\* and the task's plan, if there is one, is not completed.
C18_LLMErrorPropagates ==
    [][replies' = Append(replies, None) =>
          /\ pc' = "idle"
          /\ outcome' = "LLMError"
          /\ IsNone(ret')
          /\ memory'.completed_tasks = memory.completed_tasks
          /\ ~IsNone(plan') =>
                 memory'.task_plans[Val(plan')].status # "completed"]_vars

\* The LLM raised in the evaluation of a retry, and the task's plan is left
\* in progress.
C18_Witness ==
    /\ outcome = "LLMError"
    /\ lastOp = "evaluate_result"
    /\ attempt = "fix"
    /\ memory.task_plans[Val(plan)].status = "in_progress"
    /\ memory.completed_tasks = <<>>

\* C19: what execute_task returns has success true and a plan whose status
\* is completed, whatever the evaluations said; it returns nothing when it
\* ends otherwise.
C19_ReturnsSuccess ==
    IF outcome = "returned"
    THEN /\ ~IsNone(ret)
         /\ Val(ret).success = TRUE
         /\ Val(ret).plan.status = "completed"
    ELSE IsNone(ret)

\* A task returned success although its only step and the step's retry were
\* both evaluated as failed.
C19_Witness ==
    /\ outcome = "returned"
    /\ Val(ret).success
    /\ Len(Val(ret).plan.steps) = 1
    /\ Len(Val(ret).results) = 2
    /\ FirstEvaluationFailed(1)
    /\ ~Get(Val(retry_evaluation), "success", FALSE)

\* C20: the context entry of a step is written once, by the step's own
\* evaluation, with the step's own result; the retry's execution and
\* evaluation change nothing in the context, so the entry still holds the
\* original result and evaluation; and after an evaluated retry, failed or
\* not, the loop goes to the next step or returns.
C20_ContextKeepsFirstAttempt ==
    [][(pc = "exec" \/ pc = "eval") =>
          /\ \A key \in DOMAIN context :
                 key \in DOMAIN context' /\ context'[key] = context[key]
          /\ (pc = "exec" \/ attempt = "fix") => context' = context
          /\ (pc = "eval" /\ attempt = "orig" /\ outcome' # "LLMError") =>
                 context'[ContextKey(i)] =
                     [description |-> memory.task_plans[Val(plan)].steps[i],
                      result |-> results[Len(results)],
                      evaluation |-> evaluation']
          /\ (pc = "eval" /\ attempt = "fix") =>
                 /\ context'[ContextKey(i)].result = results[Len(results) - 1]
                 /\ context'[ContextKey(i)].result # results[Len(results)]
                 /\ context'[ContextKey(i)].evaluation = evaluation
          /\ (pc = "eval" /\ attempt = "fix"
                 /\ outcome' \notin {"LLMError", "AttributeError"}) =>
                 ((pc' = "idle" /\ outcome' = "returned")
                  \/ (pc' = "exec" /\ i' = i + 1 /\ attempt' = "orig"))]_vars

\* The retry of step 1 was evaluated as a success, the loop is at step 2,
\* and the context entry of step 1 holds the failed first evaluation.
C20_Witness ==
    /\ pc = "exec"
    /\ i = 2
    /\ lastOp = "evaluate_result"
    /\ FirstEvaluationFailed(1)
    /\ ~IsNone(retry_evaluation)
    /\ Get(Val(retry_evaluation), "success", FALSE)
    /\ context[ContextKey(1)].result = results[1]

-----------------------------------------------------------------------------
(* What plan_task leaves behind *)

\* plan_task has returned a plan and execute_task has not yet touched it.
PlanJustReturned == pc = "planned" /\ ~IsNone(plan)

\* evaluate_result has returned an evaluation and the loop has gone on to
\* its next call of execute_step without a save of its own.
EvaluationJustReturned == lastOp = "evaluate_result" /\ pc = "exec"

\* C21: right after plan_task has returned a plan, and right after
\* evaluate_result has returned an evaluation, the file holds the memory.
C21_SavedBeforeReturn ==
    (PlanJustReturned \/ EvaluationJustReturned) => file = save_to_file(memory)

\* C22: a call of plan_task that does not raise appends exactly one plan to
\* task_plans and leaves the earlier plans as they were, in their order.
C22_OnePlanPerCall ==
    [][(pc = "plan" /\ outcome' # "LLMError") =>
          /\ Len(memory'.task_plans) = Len(memory.task_plans) + 1
          /\ SubSeq(memory'.task_plans, 1, Len(memory.task_plans))
                 = memory.task_plans]_vars

\* The JSON object the regular expression finds in text decodes and has the
\* fields TaskPlan requires.
PlanDecodes(text) ==
    /\ ~Undecodable(text)
    /\ RequiredPlanFields \subseteq DOMAIN Val(JsonLoads(Val(ReSearch(text))))

\* C23: the plan plan_task returns for a reply that decodes is pending and
\* has no completed_at, whatever other fields the reply's object carries.
C23_DecodedPlanPending ==
    (PlanJustReturned /\ PlanDecodes(Val(replies[1]))) =>
        /\ memory.task_plans[Val(plan)].status = "pending"
        /\ IsNone(memory.task_plans[Val(plan)].completed_at)

\* text holds a brace-delimited span that is malformed JSON or an object
\* without one of the required fields.
MalformedObject(text) == ~NoJsonObject(text) /\ ~PlanDecodes(text)

\* C24: for a planning reply with a brace-delimited span that is malformed
\* or lacks a required field, plan_task raises nothing and returns the plan
\* it has appended last: one step, the whole reply text, and as description
\* the first DescriptionLimit words of the request.
C24_FallbackOnMalformed ==
    (Len(replies) = 1 /\ ~IsNone(replies[1]) /\ MalformedObject(Val(replies[1]))) =>
        /\ outcome = "none"
        /\ ~IsNone(plan)
        /\ Val(plan) = Len(memory.task_plans)
        /\ LET p == memory.task_plans[Val(plan)]
           IN  /\ p.steps = <<Val(replies[1])>>
               /\ Len(p.description) <= DescriptionLimit
               /\ p.description =
                      IF Len(request) <= DescriptionLimit THEN request
                      ELSE SubSeq(request, 1, DescriptionLimit)

\* plan_task has returned the fallback plan for an object without steps,
\* asked for by a request longer than the description.
C24_Witness ==
    /\ PlanJustReturned
    /\ replies[1] = Some(<<"{", "PM", "}">>)
    /\ request = LongRequest
    /\ Len(memory.task_plans[Val(plan)].description) = DescriptionLimit
    /\ Len(memory.task_plans[Val(plan)].steps) = 1

-----------------------------------------------------------------------------
(* conversation_history and the execution prompt during a task *)

\* C25: starting a task appends one user entry with the request; a call of
\* execute_step that returns appends one assistant entry whose content is
\* its response, and changes nothing else in memory; one that raises
\* changes nothing; no other step of the task touches conversation_history.
C25_TaskHistory ==
    [][/\ (pc = "idle" /\ pc' = "plan") =>
             memory' = [memory EXCEPT !.conversation_history =
                           Append(@, [role |-> "user", content |-> request',
                                      timestamp |-> IsoFormat(now)])]
       /\ pc = "exec" =>
             IF outcome' = "LLMError" THEN memory' = memory
             ELSE LET result == results'[Len(results')]
                  IN  /\ Len(results') = Len(results) + 1
                      /\ result.response = Val(replies'[Len(replies')])
                      /\ memory' = [memory EXCEPT !.conversation_history =
                                       Append(@, [role |-> "assistant",
                                                  content |-> result.response,
                                                  timestamp |-> result.timestamp])]
       /\ (pc = "plan" \/ pc = "planned" \/ pc = "eval") =>
             memory'.conversation_history = memory.conversation_history]_vars

\* A step and its retry have both been executed: the history of the task is
\* the user entry and two assistant entries.
C25_Witness ==
    /\ pc = "eval"
    /\ attempt = "fix"
    /\ Len(results) = 2
    /\ Len(memory.conversation_history) = 3
    /\ memory.conversation_history[1].role = "user"
    /\ memory.conversation_history[3].content = results[2].response

\* The steps whose entries the context holds when step n is executed: the
\* steps before n, and n itself once its own evaluation has been recorded
\* and its retry is executed.
StepsInContext(n, a) == 1..(IF a = "orig" THEN n - 1 ELSE n)

\* C26: the prompt of an execution of plan step i is built from the step's
\* text, from a context that holds the request and one entry (description,
\* result, evaluation) for each of the steps 1..i-1 and for no other step,
\* and from the last HistoryWindow entries of conversation_history, all of
\* them when there are fewer.  The retry of step i is given the same
\* context, which by then holds the entry of step i as well.
C26_PromptContents ==
    pc = "exec" =>
        /\ ~IsNone(prompt)
        /\ LET p == Val(prompt)
               h == memory.conversation_history
               steps == memory.task_plans[Val(plan)].steps
           IN  /\ p.step = arg
               /\ DOMAIN p.context =
                      {"request"} \cup {ContextKey(k) : k \in StepsInContext(i, attempt)}
               /\ p.context["request"] = request
               /\ \A k \in StepsInContext(i, attempt) :
                      /\ DOMAIN p.context[ContextKey(k)] =
                             {"description", "result", "evaluation"}
                      /\ p.context[ContextKey(k)].description = steps[k]
                      /\ p.context[ContextKey(k)].result.step = steps[k]
               /\ Len(p.recent_history) =
                      IF Len(h) < HistoryWindow THEN Len(h) ELSE HistoryWindow
               /\ \A j \in 1..Len(p.recent_history) :
                      p.recent_history[j] = h[Len(h) - Len(p.recent_history) + j]

\* Step 2 of a plan is executed for the first time with more than
\* HistoryWindow entries in conversation_history: the prompt gets the last
\* HistoryWindow of them and a context with the entry of step 1 only.
C26_Witness ==
    /\ pc = "exec"
    /\ i = 2
    /\ attempt = "orig"
    /\ Len(memory.conversation_history) > HistoryWindow
    /\ Len(Val(prompt).recent_history) = HistoryWindow
    /\ DOMAIN Val(prompt).context = {"request", "step_1"}

-----------------------------------------------------------------------------
(* error_log *)

\* The reply that the step now taken has received.
NewReply == replies'[Len(replies')]

\* C27: an evaluation whose reply decodes appends one record to error_log,
\* with the evaluation's errors and the whole result that was evaluated,
\* when the errors are not empty, and leaves error_log as it is when they
\* are empty or absent; the earlier records stay as they were.
C27_ErrorLogOnParsedEvaluation ==
    [][(pc = "eval" /\ ~IsNone(NewReply) /\ ~Undecodable(Val(NewReply))) =>
          LET ev == Val(JsonLoads(Val(ReSearch(Val(NewReply)))))
              errors == Get(ev, "errors", <<>>)
          IN  memory'.error_log =
                  IF errors = <<>> THEN memory.error_log
                  ELSE Append(memory.error_log,
                              [timestamp |-> IsoFormat(now'), errors |-> errors,
                               context |-> results[Len(results)]])]_vars

\* An evaluation with errors has put the step's result in error_log, and
\* the evaluation of the retry, without errors, has added nothing.
C27_Witness ==
    /\ lastOp = "evaluate_result"
    /\ Len(results) = 2
    /\ Len(memory.error_log) = 1
    /\ memory.error_log[1].context = results[1]
    /\ memory.error_log[1].errors = <<"E1">>
    /\ ~IsNone(retry_evaluation)
    /\ Get(Val(retry_evaluation), "errors", <<"none">>) = <<>>

\* The evaluation that the step now taken has got from evaluate_result.
NewEvaluation == IF attempt = "orig" THEN evaluation' ELSE retry_evaluation'

\* C28: every evaluation that evaluate_result returns with success false,
\* decoded from the reply or made up as the default, comes with a new
\* record in error_log.
C28_FailureLogged ==
    [][(pc = "eval" /\ outcome' \notin {"LLMError", "AttributeError"}
          /\ "success" \in DOMAIN Val(NewEvaluation)
          /\ Val(NewEvaluation).success = FALSE) =>
          Len(memory'.error_log) = Len(memory.error_log) + 1]_vars

-----------------------------------------------------------------------------
(* Append-only sequences, and /reset *)

IsPrefix(a, b) == Len(a) <= Len(b) /\ SubSeq(b, 1, Len(a)) = a

\* The step now taken belongs to execute_task (with plan_task, execute_step
\* and evaluate_result) or to chat.
CoreStep == pc # "idle" \/ pc' = "plan" \/ lastOp' \in {"chat", "chat_raised"}

\* C29: every step of execute_task, plan_task, execute_step,
\* evaluate_result and chat leaves the conversation_history and the
\* error_log it found as a prefix of the ones it leaves: entries are only
\* appended, none is removed, moved or rewritten.
C29_AppendOnly ==
    [][CoreStep =>
          /\ IsPrefix(memory.conversation_history, memory'.conversation_history)
          /\ IsPrefix(memory.error_log, memory'.error_log)]_vars

\* After a question and its answer, a task has added its entries to
\* conversation_history and a record to error_log.
C29_Witness ==
    /\ lastOp = "evaluate_result"
    /\ Len(memory.error_log) = 1
    /\ Len(memory.conversation_history) = 4
    /\ memory.conversation_history[1].content = <<"hello">>
    /\ memory.conversation_history[4].role = "assistant"

\* C30: a /reset that is confirmed leaves an empty memory and a file from
\* which a load returns an empty memory; a /reset that is not confirmed
\* leaves the memory and the file as they were.
C30_Reset ==
    [][/\ lastOp' = "reset" =>
             /\ memory' = AgentMemory
             /\ ~load_from_file(file').raised
             /\ load_from_file(file').memory = AgentMemory
       /\ lastOp' = "reset_cancelled" => (memory' = memory /\ file' = file)]_vars

\* A confirmed /reset has emptied the memory and the file after a task had
\* returned.
C30_Witness ==
    /\ lastOp = "reset"
    /\ outcome = "returned"
    /\ memory = AgentMemory
    /\ file = save_to_file(AgentMemory)
    /\ now > 0

\* C31: when the chat loop has ended, the persisted file equals the final
\* in-memory AgentMemory, however the release of the agent and of the
\* tool-server connection ended.
C31_CleanupSaves ==
    pc = "stopped" => file = save_to_file(memory)

\* C32: a read_file of a path that write_file has written returns exactly
\* the content of the latest write_file to that path.
C32_WriteThenRead ==
    (lastOp = "read_file" /\ ~IsNone(written[Val(tool_ret).path]))
        => Val(tool_ret).value = Val(written[Val(tool_ret).path])

-----------------------------------------------------------------------------
(* Routing of chat *)

\* Some task keyword is a substring of the lower-cased text.
KeywordSubstring(text) ==
    LET chars == LowerText(Characters(text))
    IN  \E keyword \in TaskKeywords : \E a, b \in 0..Len(chars) :
            SubSeq(chars, a + 1, b) = Letters(keyword)

\* C33: chat runs execute_task exactly on the messages whose lower-cased
\* text contains a task keyword as a substring; on every other message it
\* makes no call of the task loop, appends the user entry and then the
\* assistant entry to conversation_history, saves, and leaves task_plans,
\* completed_tasks, learned_patterns and error_log unchanged.
C33_ChatRouting ==
    [][/\ (pc = "idle" /\ lastOp' = "execute_task") => KeywordSubstring(request')
       /\ lastOp' = "chat" =>
            LET h == memory.conversation_history
                h2 == memory'.conversation_history
            IN  /\ Len(h2) = Len(h) + 2
                /\ SubSeq(h2, 1, Len(h)) = h
                /\ h2[Len(h) + 1].role = "user"
                /\ ~KeywordSubstring(h2[Len(h) + 1].content)
                /\ h2[Len(h) + 2].role = "assistant"
                /\ file' = save_to_file(memory')
                /\ memory'.task_plans = memory.task_plans
                /\ memory'.completed_tasks = memory.completed_tasks
                /\ memory'.learned_patterns = memory.learned_patterns
                /\ memory'.error_log = memory.error_log
                /\ calls' = calls
                /\ pc' = "idle"]_vars

\* A remark holding "test" inside "Tests" has run as a task, and a greeting
\* was then answered as a question.
C33_Witness ==
    /\ lastOp = "chat"
    /\ request = <<"Tests", "pass">>
    /\ outcome = "returned"
    /\ memory.conversation_history[Len(memory.conversation_history) - 1].content = <<"hello">>
    /\ memory.conversation_history[Len(memory.conversation_history)].role = "assistant"

-----------------------------------------------------------------------------
(* The span that is decoded *)

\* text has a "{" and a "}" after it.
HasSpan(text) ==
    \E a, b \in 1..Len(text) : a < b /\ text[a] = "{" /\ text[b] = "}"

\* The substring of text from its first "{" to its last "}".
GreedySpan(text) ==
    LET a == CHOOSE x \in 1..Len(text) :
                 text[x] = "{" /\ \A y \in 1..(x - 1) : text[y] # "{"
        b == CHOOSE x \in 1..Len(text) :
                 text[x] = "}" /\ \A y \in (x + 1)..Len(text) : text[y] # "}"
    IN  SubSeq(text, a, b)

\* A span that is one JSON object: braces around nothing or around one body.
IsJsonObjectText(span) ==
    \/ span = <<"{", "}">>
    \/ Len(span) = 3 /\ span[1] = "{" /\ span[2] \in JsonBodies /\ span[3] = "}"

\* The greedy span of text is not one valid JSON object.
SpanNotObject(text) == HasSpan(text) /\ ~IsJsonObjectText(GreedySpan(text))

\* C34: a planning reply whose span from the first "{" to the last "}" is
\* not one valid JSON object gets the fallback plan (one step, the whole
\* reply), and an evaluation reply with such a span gets the default
\* failure evaluation; an object embedded in the span is not decoded.
C34_GreedySpanDecoded ==
    /\ (Len(replies) = 1 /\ ~IsNone(replies[1]) /\ SpanNotObject(Val(replies[1]))) =>
          /\ ~IsNone(plan)
          /\ memory.task_plans[Val(plan)].steps = <<Val(replies[1])>>
    /\ (/\ replies # <<>>
        /\ calls[Len(replies)].op = "evaluate_result"
        /\ ~IsNone(replies[Len(replies)])
        /\ SpanNotObject(Val(replies[Len(replies)]))) =>
          /\ ~IsNone(LastEvaluation)
          /\ IsDefaultEvaluation(Val(LastEvaluation))

\* A plan reply and an evaluation reply that both hold a valid object
\* followed by text with "}": the plan is the fallback, the evaluation the
\* default, and the step is being retried.
C34_Witness ==
    /\ Len(replies) = 3
    /\ replies[1] = Some(<<"{", "P1", "}", "w", "}">>)
    /\ replies[3] = Some(<<"{", "EOK", "}", "w", "}">>)
    /\ memory.task_plans[Val(plan)].steps = <<Val(replies[1])>>
    /\ IsDefaultEvaluation(Val(evaluation))
    /\ pc = "exec"
    /\ attempt = "fix"

-----------------------------------------------------------------------------
(* When a step is retried *)

\* The steps whose first evaluation has returned a dict.
EvaluatedSteps ==
    {n \in StepNumbers : /\ ContextKey(n) \in DOMAIN context
                         /\ ~IsNone(context[ContextKey(n)].evaluation)}

\* C35: a step whose first evaluation has success true is executed exactly
\* once; a step whose first evaluation has any other success value, or no
\* success field at all, is executed exactly twice, the second time as the
\* retry.
C35_RetryIffNotSuccess ==
    \A n \in EvaluatedSteps :
        LET ev == Val(context[ContextKey(n)].evaluation)
            cs == ExecCallsOf(n)
        IN  IF "success" \in DOMAIN ev /\ ev.success = TRUE
            THEN Len(cs) = 1 /\ cs[1].attempt = "orig"
            ELSE Len(cs) = 2 /\ cs[1].attempt = "orig" /\ cs[2].attempt = "fix"

\* Step 1's evaluation decoded to an object without a success field and the
\* step was retried; step 2's evaluation reported success and the task
\* returned after one execution of it.
C35_Witness ==
    /\ outcome = "returned"
    /\ EvaluatedSteps = {1, 2}
    /\ DOMAIN Val(context[ContextKey(1)].evaluation) = {}
    /\ Len(ExecCallsOf(1)) = 2
    /\ Val(context[ContextKey(2)].evaluation).success = TRUE
    /\ Len(ExecCallsOf(2)) = 1

-----------------------------------------------------------------------------
(* The default evaluation and the memory *)

\* C36: a call of evaluate_result that returns the default failure
\* evaluation leaves learned_patterns and error_log as it found them.
C36_DefaultLeavesMemory ==
    [][(/\ pc = "eval"
        /\ outcome' \notin {"LLMError", "AttributeError"}
        /\ ~IsNone(NewEvaluation)
        /\ IsDefaultEvaluation(Val(NewEvaluation))) =>
          /\ memory'.learned_patterns = memory.learned_patterns
          /\ memory'.error_log = memory.error_log]_vars

-----------------------------------------------------------------------------
(* The results a task returns *)

\* The execute_step calls of the task, in the order they were made.
ExecCalls == SelectSeq(calls, LAMBDA c : c.op = "execute_step")

\* The steps 1..n whose first evaluation failed.
FailedSteps(n) == {k \in 1..n : FirstEvaluationFailed(k)}

\* C37: the results execute_task returns for a plan of n steps, f of them
\* with a failed first evaluation, are n + f results, one per execution and
\* in the order of the executions: a step's result, then the result of its
\* retry when it had one, then the next step's.
C37_ResultsInOrder ==
    outcome = "returned" =>
        LET rs == Val(ret).results
            n == Len(Val(ret).plan.steps)
        IN  /\ Len(rs) = n + Cardinality(FailedSteps(n))
            /\ Len(rs) = Len(ExecCalls)
            /\ \A j \in 1..Len(rs) :
                  /\ rs[j].step = ExecCalls[j].step
                  /\ ExecCalls[j].attempt = "orig" =>
                        /\ rs[j].step = Val(ret).plan.steps[ExecCalls[j].i]
                        /\ j > 1 => ExecCalls[j].i = ExecCalls[j - 1].i + 1
                  /\ ExecCalls[j].attempt = "fix" =>
                        /\ j > 1
                        /\ ExecCalls[j - 1].attempt = "orig"
                        /\ ExecCalls[j - 1].i = ExecCalls[j].i
                        /\ ExecCalls[j].i \in FailedSteps(n)

\* A plan of two steps has returned three results: the first step's, its
\* retry's, and the second step's, whose first evaluation succeeded.
C37_Witness ==
    /\ outcome = "returned"
    /\ Len(Val(ret).plan.steps) = 2
    /\ FailedSteps(2) = {1}
    /\ Len(Val(ret).results) = 3
    /\ Val(ret).results[2].step # Val(ret).plan.steps[1]
    /\ Val(ret).results[3].step = Val(ret).plan.steps[2]

-----------------------------------------------------------------------------
(* Termination of execute_task *)

\* The calls of operation op made for step n.
CallsOf(op, n) == SelectSeq(calls, LAMBDA c : c.op = op /\ c.i = n)

\* Every LLM call of the task has returned a reply.
EveryCallReturned == \A k \in 1..Len(replies) : ~IsNone(replies[k])

\* C38: a call of execute_task in which every LLM call returned a reply ends
\* in the completed state, having made one planning call and, per step of
\* the plan, one execute and one evaluate call, or two of each when the
\* step's first evaluation failed.
C38_EndsCompleted ==
    (pc = "idle" /\ outcome # "none" /\ EveryCallReturned) =>
        /\ outcome = "returned"
        /\ Val(ret).plan.status = "completed"
        /\ calls[1].op = "plan_task"
        /\ \A k \in 2..Len(calls) : calls[k].op # "plan_task"
        /\ \A n \in 1..Len(Val(ret).plan.steps) :
              LET expected == IF FirstEvaluationFailed(n) THEN 2 ELSE 1
              IN  /\ Len(CallsOf("execute_step", n)) = expected
                  /\ Len(CallsOf("evaluate_result", n)) = expected
        /\ Len(calls) = 1 + 2 * (Len(Val(ret).plan.steps)
                                   + Cardinality(FailedSteps(Len(Val(ret).plan.steps))))


====
